---- MODULE Spec2Model ----
(***************************************************************************)
(* Model of predictable-python.                                            *)
(*                                                                         *)
(* Spec: the runtime enforcement engine (contract_util.py): the decorator  *)
(* enforce_contract, its per-invocation checks, the in-process execution   *)
(* path and the timed worker process.  One behaviour follows one governed  *)
(* function `fn` and the contract that governs it.  Between invocations    *)
(* the contract is edited the way the repository's tests edit it (append a *)
(* caller, append a call name, toggle the raise switch, remove/append the  *)
(* name in `functions`, rename a params key).  An invocation runs the      *)
(* checks of `wrapped`; with max_runtime_seconds > 0 it then interleaves   *)
(* with the worker process.                                                *)
(*                                                                         *)
(* SpecValidator: schema validation and the static validator               *)
(* (contract_validator.py, v1_schema.py).  One behaviour is one process:   *)
(* the command line tool, or a program that runs several ASTVisitor passes *)
(* one after another.                                                      *)
(***************************************************************************)
EXTENDS Integers, Sequences, FiniteSets, TLC

VARIABLES contract, fn, pc, call, proc, q, eq, now, last, since,
          lists, visitor, report, schema, passes

\* The state of the runtime engine and the state of the static validator.
rvars == <<contract, fn, pc, call, proc, q, eq, now, last, since>>

vvars == <<lists, visitor, report, schema, passes>>

vars == <<rvars, vvars>>

(***************************************************************************)
(* Bounds of the model.                                                    *)
(***************************************************************************)
\* Capacity of the OS pipe under a multiprocessing.Queue, in size units.
PipeCap == 1
\* Longest body duration explored, in clock ticks.
MaxDur == 2
\* Most positional arguments an invocation passes.
MaxPos == 1

(***************************************************************************)
(* Values.  NONE stands for Python's None; a natural number n stands for   *)
(* an object whose pickled form occupies n units of pipe space.            *)
(***************************************************************************)
NONE == 0 - 1

Size(v) == IF v = NONE THEN 0 ELSE v

\* A value that does not fit into the pipe in one piece.
BigVal == PipeCap + 1

ArgVals == {NONE, 1}

RetVals == {NONE, 1, BigVal}

(***************************************************************************)
(* Validator predicates (the lambdas stored under "params" and "returns"). *)
(***************************************************************************)
PredHolds(p, v) ==
    CASE p = "any"      -> TRUE
      [] p = "is_none"  -> v = NONE
      [] p = "not_none" -> v # NONE
      [] p = "positive" -> v # NONE /\ v > 0
      [] OTHER          -> FALSE

(***************************************************************************)
(* Source of a governed function, as the tree ast.parse(inspect.getsource) *)
(* yields.  A node is a record [kind, func, id, kids]:                     *)
(*   kind "Call": func is "Name" (f(...)) or "Attribute" (obj.m(...)), id  *)
(*                the called name resp. the base object's name, kids the   *)
(*                nodes inside its arguments;                              *)
(*   kind "FunctionDef": id the function's name, kids its body statements  *)
(*                followed by its decorator_list (the order of _fields);   *)
(*   kind "Expr": any other node, kids its children.                       *)
(***************************************************************************)
CallName(id, kids) == [kind |-> "Call", func |-> "Name", id |-> id, kids |-> kids]

CallAttr(base, kids) == [kind |-> "Call", func |-> "Attribute", id |-> base, kids |-> kids]

FunctionDef(name, kids) == [kind |-> "FunctionDef", func |-> "", id |-> name, kids |-> kids]

Expr(kids) == [kind |-> "Expr", func |-> "", id |-> "", kids |-> kids]

\* The decorator line `@enforce_contract(contract)`, part of getsource(fn).
Decorator == CallName("enforce_contract", <<Expr(<<>>)>>)

RECURSIVE Concat(_)
Concat(ss) == IF ss = <<>> THEN <<>> ELSE Head(ss) \o Concat(Tail(ss))

\* ast.walk restricted to Call nodes: every call expression below `node`,
\* those inside another call's arguments included.
RECURSIVE VisitDeep(_)
VisitDeep(node) ==
    LET below == Concat([i \in 1..Len(node.kids) |-> VisitDeep(node.kids[i])])
    IN  IF node.kind = "Call" THEN <<node>> \o below ELSE below

(***************************************************************************)
(* CheckFunctionCalls.visit: NodeVisitor.generic_visit walks every child   *)
(* of a node that has no visit_ method; visit_Call records the node and    *)
(* does not call generic_visit, so nothing below a Call node is visited.   *)
(* The result is the sequence of Call nodes visit_Call is applied to.      *)
(***************************************************************************)
RECURSIVE Visit(_)
Visit(node) ==
    IF node.kind = "Call"
    THEN <<node>>
    ELSE Concat([i \in 1..Len(node.kids) |-> Visit(node.kids[i])])

\* visit_Call reads node.func.id: an Attribute node has no `id`.
VisitRaises(node) ==
    LET visited == Visit(node)
    IN  \E i \in 1..Len(visited) : visited[i].func = "Attribute"

\* function_calls.calls after a visit that did not raise.
Calls(node) ==
    LET visited == Visit(node)
    IN  [i \in 1..Len(visited) |-> visited[i].id]

\* Every call expression of the source, nested ones included, with the
\* name it resolves to (the base object's name for an attribute call).
AllCallNames(node) ==
    LET walked == VisitDeep(node)
    IN  {walked[i].id : i \in 1..Len(walked)}

(***************************************************************************)
(* The governed functions explored.  A function is a record                *)
(*   name     fn.__name__                                                  *)
(*   ast      its source tree                                              *)
(*   sig      its parameters in order, each [name, default]                *)
(*   outcomes what its body can do when run: [kind, val] with kind "ret"   *)
(*            (returns val), "exc" (raises an Exception that is not a      *)
(*            ContractException), "cexc" (raises a ContractException, as   *)
(*            a nested governed call does) or "bexc" (raises a             *)
(*            BaseException that is not an Exception, e.g. SystemExit)     *)
(*   durs     how long its body can run, in ticks                          *)
(*   spec0    its section of the contract at start, <<>> when it has none  *)
(***************************************************************************)
Ret(v) == [kind |-> "ret", val |-> v]

Raises(k) == [kind |-> k, val |-> NONE]

Param(n, d) == [name |-> n, default |-> d]

Pred(n, p) == [name |-> n, pred |-> p]

FunctionSpec(params, returns, calls, runtime) ==
    [params |-> params, returns |-> returns, allowable_calls |-> calls,
     max_runtime_seconds |-> runtime, allowed_callers |-> {"test_callee"}]

\* max_runtime_seconds of the timed fixture, in ticks (0.25 s in the test).
Budget == 1

\* def called(): return True
called ==
    [name |-> "called", ast |-> FunctionDef("called", <<Decorator>>), sig |-> <<>>,
     outcomes |-> {Ret(1)}, durs |-> {0},
     spec0 |-> <<FunctionSpec(<<>>, "any", {}, 0)>>]

\* def caller(): return called().returns
caller ==
    [name |-> "caller",
     ast |-> FunctionDef("caller", <<Expr(<<CallName("called", <<>>)>>), Decorator>>),
     sig |-> <<>>, outcomes |-> {Ret(1), Ret(NONE), Raises("cexc")}, durs |-> {0},
     spec0 |-> <<FunctionSpec(<<>>, "any", {}, 0)>>]

\* def missing(): missing_function()      (no section in the contract)
missing ==
    [name |-> "missing",
     ast |-> FunctionDef("missing", <<CallName("missing_function", <<>>), Decorator>>),
     sig |-> <<>>, outcomes |-> {Ret(NONE)}, durs |-> {0}, spec0 |-> <<>>]

\* def nested():
\*     def helper(): deep()
\*     return outer(inner())
nested ==
    [name |-> "nested",
     ast |-> FunctionDef("nested",
                <<FunctionDef("helper", <<CallName("deep", <<>>)>>),
                  Expr(<<CallName("outer", <<CallName("inner", <<>>)>>)>>),
                  Decorator>>),
     sig |-> <<>>, outcomes |-> {Ret(1)}, durs |-> {0},
     spec0 |-> <<FunctionSpec(<<>>, "any", {}, 0)>>]

\* def attr(): return obj.method()
attr ==
    [name |-> "attr",
     ast |-> FunctionDef("attr", <<Expr(<<CallAttr("obj", <<>>)>>), Decorator>>),
     sig |-> <<>>, outcomes |-> {Ret(1)}, durs |-> {0},
     spec0 |-> <<FunctionSpec(<<>>, "any", {}, 0)>>]

\* plain = enforce_contract(contract)(plain): wrapped without the decorator
\* line, a body without calls.  Explored with and without a contract section.
plain ==
    [name |-> "plain", ast |-> FunctionDef("plain", <<>>), sig |-> <<>>,
     outcomes |-> {Ret(NONE)}, durs |-> {0},
     spec0 |-> <<FunctionSpec(<<>>, "any", {}, 0)>>]

\* def pos_param(x): pass        (the contract names the parameter `y`)
pos_param ==
    [name |-> "pos_param", ast |-> FunctionDef("pos_param", <<Decorator>>),
     sig |-> <<Param("x", FALSE)>>, outcomes |-> {Ret(NONE)}, durs |-> {0},
     spec0 |-> <<FunctionSpec(<<Pred("y", "not_none")>>, "is_none", {}, 0)>>]

\* def dflt(a=1, b=2): return a      (both parameters have defaults)
dflt ==
    [name |-> "dflt", ast |-> FunctionDef("dflt", <<Decorator>>),
     sig |-> <<Param("a", TRUE), Param("b", TRUE)>>, outcomes |-> {Ret(1)}, durs |-> {0},
     spec0 |-> <<FunctionSpec(<<Pred("a", "not_none"), Pred("b", "not_none")>>, "any", {}, 0)>>]

\* def one_sec(stime): sleep(stime); return stime   -- any body, any duration
BodyOutcomes == {Ret(v) : v \in RetVals} \cup {Raises("exc"), Raises("cexc"), Raises("bexc")}

one_sec_src == FunctionDef("one_sec", <<CallName("sleep", <<>>), Decorator>>)

one_sec ==
    [name |-> "one_sec", ast |-> one_sec_src,
     sig |-> <<Param("stime", FALSE)>>, outcomes |-> BodyOutcomes, durs |-> 0..MaxDur,
     spec0 |-> <<FunctionSpec(<<Pred("stime", "not_none")>>, "not_none", {"sleep"}, Budget)>>]

\* The same function under a contract without a time limit.
untimed ==
    [one_sec EXCEPT !.durs = {0},
        !.spec0 = <<FunctionSpec(<<Pred("stime", "not_none")>>, "not_none", {"sleep"}, 0)>>]

Functions == {called, caller, missing, nested, attr, plain, pos_param, dflt, one_sec, untimed}

Callers == {"test_caller", "test_callee"}

(***************************************************************************)
(* The contract dictionary.  `specs` holds the per-function sections (the  *)
(* keys of the dict that are function names); the lists allowable_calls,   *)
(* allowed_callers, global_allowed_calls and functions are only ever       *)
(* tested for membership by the engine and are kept as sets.               *)
(***************************************************************************)
Contract(f, withSpec) ==
    [raise_on_contract_exception |-> TRUE,
     functions |-> IF f.spec0 = <<>> THEN {} ELSE {f.name},
     global_allowed_calls |-> {"enforce_contract"},
     allowable_imports |-> {"contract_util"},
     specs |-> IF f.spec0 = <<>> \/ ~withSpec THEN <<>> ELSE [n \in {f.name} |-> f.spec0[1]]]

function_name(f) == f.name

HasSection(c, f) == function_name(f) \in DOMAIN c.specs

Section(c, f) == c.specs[function_name(f)]

(***************************************************************************)
(* inspect.signature(fn).bind for a signature of plain positional-or-      *)
(* keyword parameters.  args is the sequence of positional values,         *)
(* kwargs a sequence of [name, val].  bind raises TypeError on too         *)
(* many positionals, an unknown keyword, a parameter given twice, or a     *)
(* parameter without default left unbound; defaults are NOT applied, so an *)
(* omitted defaulted parameter is absent from sig.arguments.               *)
(***************************************************************************)
SigNames(f) == {f.sig[i].name : i \in 1..Len(f.sig)}

KwNames(kwargs) == {kwargs[i].name : i \in 1..Len(kwargs)}

KwVal(kwargs, n) == (CHOOSE i \in 1..Len(kwargs) : kwargs[i].name = n)

BindOk(f, args, kwargs) ==
    /\ Len(args) <= Len(f.sig)
    /\ \A i \in 1..Len(kwargs) :
          \E j \in 1..Len(f.sig) : j > Len(args) /\ f.sig[j].name = kwargs[i].name
    /\ \A j \in 1..Len(f.sig) :
          j <= Len(args) \/ f.sig[j].default \/ f.sig[j].name \in KwNames(kwargs)

\* Names bound by the call (the keys of sig.arguments).
BoundNames(f, args, kwargs) ==
    {f.sig[j].name : j \in 1..Len(args)} \cup KwNames(kwargs)

\* arguments[param]
Argument(f, args, kwargs, n) ==
    IF \E j \in 1..Len(args) : f.sig[j].name = n
    THEN args[CHOOSE j \in 1..Len(args) : f.sig[j].name = n]
    ELSE kwargs[KwVal(kwargs, n)].val

(***************************************************************************)
(* The checks of `wrapped`, lines 73-128, each yielding the kind of the    *)
(* exception it raises or "None".  The engine raises ContractException     *)
(* everywhere; the kind names the raise statement.                         *)
(***************************************************************************)
\* Faulty variant: the loop consults the function's own allowable_calls
\* only and leaves global_allowed_calls out.
ValidateCallsOwnListOnly(c, f) ==
    LET calls == Calls(f.ast)
    IN  IF calls = <<>> THEN "None"
        ELSE IF ~HasSection(c, f) THEN "FunctionNotDeclared"
        ELSE IF \E i \in 1..Len(calls) : calls[i] \notin Section(c, f).allowable_calls
             THEN "CallNotAllowed"
             ELSE "None"

\* lines 81-93: the loop over function_calls.calls
ValidateCalls(c, f) ==
    LET calls == Calls(f.ast)
    IN  IF calls = <<>> THEN "None"
        ELSE IF ~HasSection(c, f) THEN "FunctionNotDeclared"
        ELSE IF \E i \in 1..Len(calls) :
                   /\ calls[i] \notin Section(c, f).allowable_calls
                   /\ calls[i] \notin c.global_allowed_calls
             THEN "CallNotAllowed"
             ELSE "None"

\* lines 94-95
ValidateDeclared(c, f) ==
    IF function_name(f) \notin c.functions THEN "FunctionNotDeclared" ELSE "None"

\* Faulty variant: allowed_callers is read once, when the function is decorated,
\* and later edits of the contract are not seen.
ValidateCallerCached(c, f, function_caller) ==
    IF ~HasSection(c, f) THEN "KeyError"
    ELSE IF function_caller \notin f.spec0[1].allowed_callers
         THEN "CallerNotAllowed"
         ELSE "None"

\* lines 97-101; contract[function_name] raises KeyError without a section
ValidateCaller(c, f, function_caller) ==
    IF ~HasSection(c, f) THEN "KeyError"
    ELSE IF function_caller \notin Section(c, f).allowed_callers
         THEN "CallerNotAllowed"
         ELSE "None"

\* lines 103-107
ValidateBinding(f, args, kwargs) ==
    IF BindOk(f, args, kwargs) THEN "None" ELSE "UnboundParameters"

ParamNames(c, f) == {Section(c, f).params[i].name : i \in 1..Len(Section(c, f).params)}

\* Faulty variant: the check of the bound names against params is left out.
ValidateParamsDeclaredSkipped(c, f, args, kwargs) == "None"

\* lines 111-120
ValidateParamsDeclared(c, f, args, kwargs) ==
    IF BoundNames(f, args, kwargs) \subseteq ParamNames(c, f)
    THEN "None"
    ELSE "ParamNotDeclared"

\* Faulty variant: the predicates of params are not applied.
ValidateParamValuesSkipped(c, f, args, kwargs) == "None"

\* lines 122-128: the loop runs over the contract's params in order;
\* arguments[param] raises KeyError for a name the call did not bind.
ValidateParamValues(c, f, args, kwargs) ==
    LET params == Section(c, f).params
        Bad(i) == \/ params[i].name \notin BoundNames(f, args, kwargs)
                  \/ ~PredHolds(params[i].pred, Argument(f, args, kwargs, params[i].name))
    IN  IF \A i \in 1..Len(params) : ~Bad(i) THEN "None"
        ELSE LET i == CHOOSE k \in 1..Len(params) : Bad(k) /\ \A j \in 1..(k - 1) : ~Bad(j)
             IN  IF params[i].name \notin BoundNames(f, args, kwargs)
                 THEN "KeyError"
                 ELSE "ParamInvalid"

\* The first exception raised before the target is run, "None" if none.
PreCheck(c, f, function_caller, args, kwargs) ==
    IF VisitRaises(f.ast) THEN "AttributeError"
    ELSE IF ValidateCalls(c, f) # "None" THEN ValidateCalls(c, f)
    ELSE IF ValidateDeclared(c, f) # "None" THEN ValidateDeclared(c, f)
    ELSE IF ValidateCaller(c, f, function_caller) # "None"
         THEN ValidateCaller(c, f, function_caller)
    ELSE IF ValidateBinding(f, args, kwargs) # "None" THEN ValidateBinding(f, args, kwargs)
    ELSE IF ValidateParamsDeclared(c, f, args, kwargs) # "None"
         THEN ValidateParamsDeclared(c, f, args, kwargs)
    ELSE ValidateParamValues(c, f, args, kwargs)

\* The exceptions `except ContractException` (line 176) catches.
ContractExceptions ==
    {"FunctionNotDeclared", "CallNotAllowed", "CallerNotAllowed", "UnboundParameters",
     "ParamNotDeclared", "ParamInvalid", "TimeoutExceeded", "ReturnInvalid",
     "BodyContractException"}

\* Those among them that the engine's own raise statements create.
Violations == ContractExceptions \ {"BodyContractException"}

(***************************************************************************)
(* What an invocation hands its caller: how = "return" with the Return     *)
(* object (ce, ret), or how = "raise" with the exception in ce.            *)
(*   started  the target's body was started                                *)
(*   body     what the body did, [kind |-> "none"] when it did not finish  *)
(***************************************************************************)
NoBody == [kind |-> "none", val |-> NONE]

Return(ce, ret, started, body) ==
    [how |-> "return", ce |-> ce, ret |-> ret, started |-> started, body |-> body]

Raise(e, started, body) ==
    [how |-> "raise", ce |-> e, ret |-> NONE, started |-> started, body |-> body]

\* Return.ok
Ok(r) == r.how = "return" /\ r.ce = "None"

\* Faulty variant: the handler ignores the switch and always re-raises.
HandleAlwaysRaise(c, e, started, body) == Raise(e, started, body)

\* lines 176-180 for a ContractException, propagation for anything else
Handle(c, e, started, body) ==
    IF e \in ContractExceptions /\ ~c.raise_on_contract_exception
    THEN Return(e, NONE, started, body)
    ELSE Raise(e, started, body)

\* lines 169-174
CheckReturn(c, f, ret, body) ==
    IF ~PredHolds(Section(c, f).returns, ret)
    THEN Handle(c, "ReturnInvalid", TRUE, body)
    ELSE Return("None", ret, TRUE, body)

\* The exception a raising body raises, as the caller of fn sees it.
BodyException(out) ==
    CASE out.kind = "exc"  -> "BodyException"
      [] out.kind = "cexc" -> "BodyContractException"
      [] out.kind = "bexc" -> "BodyBaseException"

\* lines 165-174: the target is called in the calling process
RunInProcess(c, f, out) ==
    IF out.kind = "ret"
    THEN CheckReturn(c, f, out.val, out)
    ELSE Handle(c, BodyException(out), TRUE, out)

(***************************************************************************)
(* The static validator (contract_validator.py).  The analysed file is the *)
(* tree ast.parse yields: a Module node whose kids are the top-level       *)
(* statements.  Besides Call, FunctionDef and Expr nodes it holds          *)
(*   kind "Import":     `import a, b`, names the imported module names     *)
(*   kind "ImportFrom": `from m import x`, id the module m                 *)
(*   kind "ClassDef":   id the class name, decorator_list its decorators,  *)
(*                      kids its body followed by the decorators           *)
(* and a Call node whose func is neither a Name nor an Attribute of a Name *)
(* (`a.b.c()`, `f()()`) has func "Other".  Nodes carry their lineno in the *)
(* field `line`.                                                           *)
(***************************************************************************)
Line(node) == IF "line" \in DOMAIN node THEN node.line ELSE 0

At(line, node) == [line |-> line] @@ node

CallOther(kids) == [kind |-> "Call", func |-> "Other", id |-> "", kids |-> kids]

Import(line, names) ==
    [kind |-> "Import", func |-> "", id |-> "", kids |-> <<>>, line |-> line, names |-> names]

ImportFrom(line, module) ==
    [kind |-> "ImportFrom", func |-> "", id |-> module, kids |-> <<>>, line |-> line]

ClassDef(line, name, decorator_list, body) ==
    [kind |-> "ClassDef", func |-> "", id |-> name, kids |-> body \o decorator_list,
     line |-> line, decorator_list |-> decorator_list]

Module(body) == [kind |-> "Module", func |-> "", id |-> "", kids |-> body]

\* ast.walk(node): the node and everything below it, breadth first.
RECURSIVE walk(_)
walk(todo) ==
    IF todo = <<>> THEN <<>> ELSE <<Head(todo)>> \o walk(Tail(todo) \o Head(todo).kids)

(***************************************************************************)
(* An ASTVisitor while it visits: the five violation lists, error_count,   *)
(* and `raised`, the exception that has left the visit ("None" if none).   *)
(* The lists are class attributes (lines 20-24): every instance appends to *)
(* the same five list objects.  error_count is rebound on the instance by  *)
(* `self.error_count += 1` and so starts from 0 in every instance.         *)
(***************************************************************************)
EmptyLists ==
    [call_violation |-> <<>>, import_violation |-> <<>>, undeclared_func |-> <<>>,
     undefined_func |-> <<>>, undecorated_class |-> <<>>]

Visiting(ls) ==
    [call_violation |-> ls.call_violation, import_violation |-> ls.import_violation,
     undeclared_func |-> ls.undeclared_func, undefined_func |-> ls.undefined_func,
     undecorated_class |-> ls.undecorated_class, error_count |-> 0, raised |-> "None"]

\* self.error_count += 1; self.<list>.append(record)
Record(st, list, record) ==
    [st EXCEPT ![list] = Append(@, record), !.error_count = @ + 1]

\* lines 42-52
RECURSIVE visit_Import(_, _, _, _)
visit_Import(st, c, node, i) ==
    IF i > Len(node.names) THEN st
    ELSE visit_Import(IF node.names[i] \notin c.allowable_imports
                      THEN Record(st, "import_violation", <<Line(node), node.names[i]>>)
                      ELSE st,
                      c, node, i + 1)

\* lines 54-62
visit_ImportFrom(st, c, node) ==
    IF node.id \notin c.allowable_imports
    THEN Record(st, "import_violation", <<Line(node), node.id>>)
    ELSE st

\* lines 85-98: one turn of the loop over ast.walk(node).  `called` is
\* cn.func.id, or cn.func.value.id when func has no id; an AttributeError
\* is not caught by `except KeyError` and leaves the visit.
WalkStep(st, c, node, cn) ==
    CASE cn.kind = "Import"     -> visit_Import(st, c, cn, 1)
      [] cn.kind = "ImportFrom" -> visit_ImportFrom(st, c, cn)
      [] cn.kind = "Call" ->
            IF cn.func \notin {"Name", "Attribute"}
            THEN [st EXCEPT !.raised = "AttributeError"]
            ELSE IF /\ cn.id \notin c.global_allowed_calls
                    /\ cn.id \notin c.specs[node.id].allowable_calls
                 THEN Record(st, "call_violation", <<Line(cn), cn.id, node.id>>)
                 ELSE st
      [] OTHER -> st

RECURSIVE WalkLoop(_, _, _, _)
WalkLoop(st, c, node, cns) ==
    IF cns = <<>> \/ st.raised # "None" THEN st
    ELSE WalkLoop(WalkStep(st, c, node, Head(cns)), c, node, Tail(cns))

\* lines 64-107.  contract[node.name] raises KeyError for a declared name
\* without a section; the handler of line 100 files it under undefined_func.
visit_FunctionDef(st, c, node) ==
    IF node.id \in c.functions
    THEN IF node.id \notin DOMAIN c.specs
         THEN Record(st, "undefined_func", node.id)
         ELSE WalkLoop(st, c, node, walk(<<node>>))
    ELSE Record(st, "undeclared_func", <<Line(node), node.id>>)

\* lines 109-114.  x.func.id needs every decorator to be a call of a name.
visit_ClassDef(st, c, node) ==
    LET ds == node.decorator_list
    IN  IF \E i \in 1..Len(ds) : ds[i].kind # "Call" \/ ds[i].func # "Name"
        THEN [st EXCEPT !.raised = "AttributeError"]
        ELSE IF "enforce_contract" \notin {ds[i].id : i \in 1..Len(ds)}
             THEN Record(st, "undecorated_class", <<Line(node), node.id>>)
             ELSE st

\* NodeVisitor.visit: a node with a visit_ method is handed to it and its
\* children are not visited (no handler calls generic_visit); any other
\* node has its children visited in order.
RECURSIVE visit(_, _, _)
RECURSIVE generic_visit(_, _, _)
visit(st, c, node) ==
    CASE node.kind = "Import"      -> visit_Import(st, c, node, 1)
      [] node.kind = "ImportFrom"  -> visit_ImportFrom(st, c, node)
      [] node.kind = "FunctionDef" -> visit_FunctionDef(st, c, node)
      [] node.kind = "ClassDef"    -> visit_ClassDef(st, c, node)
      [] OTHER                     -> generic_visit(st, c, node.kids)

generic_visit(st, c, nodes) ==
    IF nodes = <<>> \/ st.raised # "None" THEN st
    ELSE generic_visit(visit(st, c, Head(nodes)), c, Tail(nodes))

\* self.visit(self.tree), line 120.  The visitor starts on the lists as the
\* instances before it left them.
checked(ls, c, tree) == visit(Visiting(ls), c, tree)

\* "Total Violations" of a pass by a fresh process over `tree`; no total
\* is printed when the visit raises.
NoTotal == 0 - 1

Total(c, tree) ==
    LET st == checked(EmptyLists, c, tree)
    IN  IF st.raised = "None" THEN st.error_count ELSE NoTotal

\* The file that holds nothing but the definition of the governed
\* function f.  (inspect.getsource returns the lines of a definition as
\* they stand, and ast.parse rejects indented source, so the engine runs
\* only functions defined at top level.)
ModuleOf(f) == Module(<<f.ast>>)

\* The class-level lists after a visit.
ListsOf(st) ==
    [call_violation |-> st.call_violation, import_violation |-> st.import_violation,
     undeclared_func |-> st.undeclared_func, undefined_func |-> st.undefined_func,
     undecorated_class |-> st.undecorated_class]

(***************************************************************************)
(* Schema validation (verify_contract_schema, v1_schema.py).  It looks at  *)
(* the shape of the contract only: which keys are there and of which kind  *)
(* their values are.  A shape is a record                                  *)
(*   globals    kind of the value under each global key, "absent" if none  *)
(*   functions  the names in the functions list                            *)
(*   sections   for each per-function section, its own kind and, for a     *)
(*              dict, the kind of the value under each per-function key,   *)
(*              "absent" if none                                           *)
(* isinstance(v, k) holds for the kinds of the schema exactly when v is of *)
(* kind k: none of bool, list, dict, float and Callable includes another.  *)
(***************************************************************************)
schema_globals ==
    [raise_on_contract_exception |-> "bool", allowable_imports |-> "list",
     global_allowed_calls |-> "list", functions |-> "list"]

schema_functions ==
    [params |-> "dict", returns |-> "Callable", allowable_calls |-> "list",
     max_runtime_seconds |-> "float", allowed_callers |-> "list"]

\* lines 192-200 for one name of the functions list.  `fkwn not in
\* contract[f]` raises TypeError when the section is not a container.
FunctionCheck(s, f) ==
    IF f \notin DOMAIN s.sections THEN "ContractValidationException"
    ELSE IF s.sections[f].kind # "dict" THEN "TypeError"
    ELSE IF \E k \in DOMAIN schema_functions : s.sections[f].keys[k] # schema_functions[k]
         THEN "ContractValidationException"
         ELSE "None"

\* lines 183-200: the exception raised, "None" when the contract passes.
\* The functions list is read only after the global keys have passed; the
\* first name in it that fails decides (the shapes explored have one defect).
verify_contract_schema(s) ==
    IF \E k \in DOMAIN schema_globals : s.globals[k] # schema_globals[k]
    THEN "ContractValidationException"
    ELSE LET failing == {f \in s.functions : FunctionCheck(s, f) # "None"}
         IN  IF failing = {} THEN "None"
             ELSE FunctionCheck(s, CHOOSE f \in failing : TRUE)

\* The shape of a contract whose values are all of the kind the engine
\* reads them as (numbers taken as floats).
Shape(c) ==
    [globals   |-> schema_globals,
     functions |-> c.functions,
     sections  |-> [n \in DOMAIN c.specs |-> [kind |-> "dict", keys |-> schema_functions]]]

(***************************************************************************)
(* Contracts and files the static validator is run on.                     *)
(***************************************************************************)
\* calc_contract.py
calc_contract ==
    [raise_on_contract_exception |-> TRUE,
     functions |-> {"calculate"},
     global_allowed_calls |-> {"enforce_contract"},
     allowable_imports |-> {"sys", "contract_util", "calc_contract"},
     specs |-> [n \in {"calculate"} |->
                  FunctionSpec(<<Pred("calculation", "not_none")>>, "not_none", {"eval"}, 2)]]

\* calculator.py
calculator ==
    Module(<<ImportFrom(1, "contract_util"),
             ImportFrom(2, "calc_contract"),
             ImportFrom(3, "sys"),
             At(7, FunctionDef("calculate",
                      <<Expr(<<At(8, CallName("eval", <<>>))>>), At(6, Decorator)>>)),
             Expr(<<At(12, CallName("len", <<>>)),
                    At(13, CallName("calculate", <<At(13, CallOther(<<>>))>>)),
                    At(15, CallName("print", <<>>)),
                    At(16, CallName("print", <<>>))>>)>>)

\* A contract declaring f, g and ghost, each with a section; f may call
\* deep, g and ghost may call nothing of their own.
sample_contract ==
    [raise_on_contract_exception |-> FALSE,
     functions |-> {"f", "g", "ghost"},
     global_allowed_calls |-> {"enforce_contract"},
     allowable_imports |-> {"sys"},
     specs |-> [n \in {"f", "g", "ghost"} |->
                  FunctionSpec(<<>>, "any", IF n = "f" THEN {"deep"} ELSE {}, 0)]]

\* The same contract with the section of f taken out.
nosection_contract ==
    [sample_contract EXCEPT !.specs = [n \in {"g", "ghost"} |-> sample_contract.specs[n]]]

\*  1 import os, sys
\*  2 @enforce_contract(contract)
\*  3 def f():
\*  4     import re
\*  5     def g():
\*  6         deep()
\*  7     bad()
\*  8     bad()
\*  9     obj.m(inner())
\* 10 def u():
\* 11     import socket
\* 12     def h(): pass
\* 13 class K:
\* 14     def m(self):
\* 15         import shutil
sample ==
    Module(<<Import(1, <<"os", "sys">>),
             At(3, FunctionDef("f",
                      <<Import(4, <<"re">>),
                        At(5, FunctionDef("g", <<Expr(<<At(6, CallName("deep", <<>>))>>)>>)),
                        Expr(<<At(7, CallName("bad", <<>>))>>),
                        Expr(<<At(8, CallName("bad", <<>>))>>),
                        Expr(<<At(9, CallAttr("obj", <<At(9, CallName("inner", <<>>))>>))>>),
                        At(2, Decorator)>>)),
             At(10, FunctionDef("u",
                      <<Import(11, <<"socket">>),
                        At(12, FunctionDef("h", <<>>))>>)),
             ClassDef(13, "K", <<>>,
                      <<At(14, FunctionDef("m", <<Import(15, <<"shutil">>)>>))>>)>>)

\*  1 def f():
\*  2     deep()
clean ==
    Module(<<At(1, FunctionDef("f", <<Expr(<<At(2, CallName("deep", <<>>))>>)>>))>>)

\*  1 def f():
\*  2     bad()
\*  3     a.b.c()
chained ==
    Module(<<At(1, FunctionDef("f", <<Expr(<<At(2, CallName("bad", <<>>))>>),
                                      Expr(<<At(3, CallOther(<<>>))>>)>>))>>)

StaticContracts == {calc_contract, sample_contract, nosection_contract}

Files == {calculator, sample, clean, chained}

\* main without --file
NoFile == Module(<<>>)

\* Kinds a value of the wrong kind is given in the shapes explored.
BadKinds == {"absent", "int"}

\* The shapes a contract dictionary with the content of c is tried with:
\* as it is and, when that passes, with one defect: one global key or one
\* key of one section absent or of another kind, or one section that is
\* None instead of a dict.
Shapes(c) ==
    IF verify_contract_schema(Shape(c)) # "None" THEN {Shape(c)}
    ELSE {Shape(c)}
        \cup {[Shape(c) EXCEPT !.globals[k] = v] : k \in DOMAIN schema_globals, v \in BadKinds}
        \cup UNION {{[Shape(c) EXCEPT !.sections[n].keys[k] = v] :
                        k \in DOMAIN schema_functions, v \in BadKinds} : n \in DOMAIN c.specs}
        \cup {[Shape(c) EXCEPT !.sections[n].kind = "NoneType"] : n \in DOMAIN c.specs}

(***************************************************************************)
(* State.                                                                  *)
(*   contract  the contract dictionary the decorator closed over           *)
(*   fn        the decorated function                                      *)
(*   pc        where the invocation in flight stands: "idle" (none),       *)
(*             "join" (in proc.join(runtime)), "alive" (join has returned, *)
(*             proc.is_alive() not yet evaluated)                          *)
(*   call      the invocation in flight: caller, arguments, and what the   *)
(*             body will do and how long it takes                          *)
(*   proc      the worker process: "none", "running" (in fn), "exiting"    *)
(*             (fn is over, the queue feeder is flushing), "exited",       *)
(*             "terminated"                                                *)
(*   q, eq     what the worker has put on the result and exception queues  *)
(*   now       ticks since proc.start()                                    *)
(*   last      the most recent finished invocation and its result          *)
(*   since     what was edited in the contract since `last`                *)
(***************************************************************************)
NoBefore == [how |-> "", ce |-> "", change |-> ""]

NoCall ==
    [function_caller |-> "", args |-> <<>>, kwargs |-> <<>>, out |-> NoBody, dur |-> 0,
     before |-> NoBefore]

NoLast ==
    [function_caller |-> "", args |-> <<>>, kwargs |-> <<>>,
     res |-> Raise("", FALSE, NoBody), timed |-> FALSE, dur |-> 0, before |-> NoBefore]

PosArgs == UNION {[1..n -> ArgVals] : n \in 0..MaxPos}

\* Keyword arguments tried: none, or one for a parameter that has a default.
KwArgs(f) ==
    {<<>>} \cup {<<[name |-> f.sig[i].name, val |-> v]>> :
                    i \in {j \in 2..Len(f.sig) : f.sig[j].default}, v \in ArgVals}

\* The contracts a behaviour can start from: the function's own section;
\* for `plain` also none at all; for the timed function also a section
\* whose returns predicate accepts None only.
InitContracts(f) ==
    {Contract(f, TRUE)}
        \cup (IF f = plain THEN {Contract(f, FALSE)} ELSE {})
        \cup (IF f = one_sec
              THEN {[Contract(f, TRUE) EXCEPT !.specs[function_name(f)].returns = "is_none"]}
              ELSE {})

(***************************************************************************)
(* The static validator as it is used.  A behaviour is one process: either *)
(* the command line tool (main: schema validation, then one pass), or a    *)
(* program that creates ASTVisitor instances and checks them one after     *)
(* another.                                                                *)
(*   lists    the five class-level lists of ASTVisitor in this process     *)
(*   visitor  the instance in hand: its contract, tree, error_count, and   *)
(*            state "none", "new", "checked" or "raised"                   *)
(*   report   what the last check() printed                                *)
(*   schema   the last verify_contract_schema call: the contract, its      *)
(*            shape and the exception raised ("None" if none)              *)
(*   passes   the number of instances created in this process              *)
(***************************************************************************)
NoVisitor == [contract |-> calc_contract, tree |-> NoFile, error_count |-> 0, state |-> "none"]

NoReport == [printed |-> FALSE, lists |-> EmptyLists, total |-> 0]

NoSchema == [contract |-> calc_contract, shape |-> Shape(calc_contract), raised |-> ""]

Init ==
    /\ fn \in Functions
    /\ contract \in InitContracts(fn)
    /\ pc = "idle"
    /\ call = NoCall
    /\ proc = "none"
    /\ q = <<>>
    /\ eq = <<>>
    /\ now = 0
    /\ last = NoLast
    /\ since = "none"
    /\ lists = EmptyLists
    /\ visitor = NoVisitor
    /\ report = NoReport
    /\ schema = NoSchema
    /\ passes = 0

\* runtime = contract[function_name]["max_runtime_seconds"]   (line 131)
runtime == Section(contract, fn).max_runtime_seconds

\* History: when this invocation repeats the previous one after a single
\* edit of the contract, the previous result and the edit.
Before(function_caller, args, kwargs) ==
    IF /\ last # NoLast
       /\ since \notin {"none", "many"}
       /\ last.function_caller = function_caller
       /\ last.args = args
       /\ last.kwargs = kwargs
    THEN [how |-> last.res.how, ce |-> last.res.ce, change |-> since]
    ELSE NoBefore

\* The invocation is over: its result is handed to the caller.
Finish(function_caller, args, kwargs, res, timed, dur, before) ==
    /\ last' = [function_caller |-> function_caller, args |-> args, kwargs |-> kwargs,
                res |-> res, timed |-> timed, dur |-> dur, before |-> before]
    /\ since' = "none"
    /\ pc' = "idle"
    /\ call' = NoCall
    /\ q' = <<>>
    /\ eq' = <<>>
    /\ now' = 0

(***************************************************************************)
(* wrapped, lines 69-180, up to the point where it returns, raises or      *)
(* blocks in proc.join.                                                    *)
(***************************************************************************)
wrapped(function_caller, args, kwargs) ==
    /\ pc = "idle"
    /\ LET e == PreCheck(contract, fn, function_caller, args, kwargs)
       IN  IF e # "None"
           THEN \* a check fails: the handler of lines 176-180
                /\ Finish(function_caller, args, kwargs,
                          Handle(contract, e, FALSE, NoBody), FALSE, 0,
                          Before(function_caller, args, kwargs))
                /\ UNCHANGED <<vvars, contract, fn, proc>>
           ELSE IF runtime <= 0
           THEN \* lines 165-180: the target runs in the calling process
                /\ \E out \in fn.outcomes :
                      Finish(function_caller, args, kwargs,
                             RunInProcess(contract, fn, out), FALSE, 0,
                             Before(function_caller, args, kwargs))
                /\ UNCHANGED <<vvars, contract, fn, proc>>
           ELSE \* lines 132-150: Process(...).start(), then proc.join(runtime)
                /\ \E out \in fn.outcomes, dur \in fn.durs :
                      call' = [function_caller |-> function_caller, args |-> args,
                               kwargs |-> kwargs, out |-> out, dur |-> dur,
                               before |-> Before(function_caller, args, kwargs)]
                /\ pc' = "join"
                /\ proc' = "running"
                /\ q' = <<>>
                /\ eq' = <<>>
                /\ now' = 0
                /\ last' = NoLast
                /\ since' = "none"
                /\ UNCHANGED <<vvars, contract, fn>>

(***************************************************************************)
(* The worker process: timedfn, lines 136-144.                             *)
(***************************************************************************)
\* What timedfn puts on the queues for a body that did `out`.  `except
\* Exception` does not catch a BaseException: the worker dies with it.
timedfnPut(out) ==
    CASE out.kind = "ret"             -> [q |-> <<out.val>>, eq |-> <<>>]
      [] out.kind \in {"exc", "cexc"} -> [q |-> <<>>, eq |-> <<BodyException(out)>>]
      [] OTHER                        -> [q |-> <<>>, eq |-> <<>>]

\* The body has run for call.dur ticks and ends.
timedfn ==
    /\ proc = "running"
    /\ now >= call.dur
    /\ q' = timedfnPut(call.out).q
    /\ eq' = timedfnPut(call.out).eq
    /\ proc' = "exiting"
    /\ UNCHANGED <<vvars, contract, fn, pc, call, now, last, since>>

\* A process that has put items on a Queue joins the queue's feeder thread
\* at exit; the feeder blocks while the pipe is full, and nothing reads the
\* pipe before the caller's join has returned.
CanExit(items) == \A i \in 1..Len(items) : Size(items[i]) <= PipeCap

WorkerExit ==
    /\ proc = "exiting"
    /\ CanExit(q)
    /\ proc' = "exited"
    /\ UNCHANGED <<vvars, contract, fn, pc, call, q, eq, now, last, since>>

Alive == proc \in {"running", "exiting"}

\* Time passes.  The body ends when its duration is over, the worker exits
\* as soon as it can, and join does not outlast its timeout; between join's
\* return and the is_alive test the caller may be delayed arbitrarily.
Tick ==
    /\ pc # "idle"
    /\ now < (IF MaxDur > runtime THEN MaxDur ELSE runtime)
    /\ ~(pc = "join" /\ now >= runtime)
    /\ ~(proc = "running" /\ now >= call.dur)
    /\ ~(proc = "exiting" /\ CanExit(q))
    /\ now' = now + 1
    /\ UNCHANGED <<vvars, contract, fn, pc, call, proc, q, eq, last, since>>

\* proc.join(runtime), line 150: returns when the worker has exited or
\* when the timeout is over.
join ==
    /\ pc = "join"
    /\ proc = "exited" \/ now >= runtime
    /\ pc' = "alive"
    /\ UNCHANGED <<vvars, contract, fn, call, proc, q, eq, now, last, since>>

\* lines 162-174 (and 176-180): the worker is gone, the queues are read.
Collect(c, f, rq, req, out) ==
    IF req # <<>>
    THEN Handle(c, Head(req), TRUE, out)
    ELSE CheckReturn(c, f, IF rq # <<>> THEN Head(rq) ELSE NONE, out)

\* Faulty variant: a worker found alive is reported as timed out and left
\* running.
is_aliveNoTerminate ==
    /\ pc = "alive"
    /\ proc' = proc
    /\ IF Alive
       THEN Finish(call.function_caller, call.args, call.kwargs,
                   Handle(contract, "TimeoutExceeded", TRUE,
                          IF proc = "exiting" THEN call.out ELSE NoBody),
                   TRUE, call.dur, call.before)
       ELSE Finish(call.function_caller, call.args, call.kwargs,
                   Collect(contract, fn, q, eq, call.out), TRUE, call.dur, call.before)
    /\ UNCHANGED <<vvars, contract, fn>>

\* lines 153-180: the is_alive test and everything after it.
is_alive ==
    /\ pc = "alive"
    /\ IF Alive
       THEN /\ proc' = "terminated"
            /\ Finish(call.function_caller, call.args, call.kwargs,
                      Handle(contract, "TimeoutExceeded", TRUE,
                             IF proc = "exiting" THEN call.out ELSE NoBody),
                      TRUE, call.dur, call.before)
       ELSE /\ proc' = proc
            /\ Finish(call.function_caller, call.args, call.kwargs,
                      Collect(contract, fn, q, eq, call.out), TRUE, call.dur, call.before)
    /\ UNCHANGED <<vvars, contract, fn>>

(***************************************************************************)
(* Edits of the contract between invocations, as the tests make them.      *)
(***************************************************************************)
Edited(what) ==
    since' = IF last = NoLast THEN "none" ELSE IF since = "none" THEN what ELSE "many"

SetSection(field, value) ==
    contract' = [contract EXCEPT !.specs[function_name(fn)][field] = value]

\* contract[f]["allowed_callers"].append(name)
AppendAllowedCaller(name) ==
    /\ pc = "idle"
    /\ HasSection(contract, fn)
    /\ name \notin Section(contract, fn).allowed_callers
    /\ SetSection("allowed_callers", Section(contract, fn).allowed_callers \cup {name})
    /\ Edited("caller")
    /\ UNCHANGED <<vvars, fn, pc, call, proc, q, eq, now, last>>

\* contract[f]["allowable_calls"].append(name)
AppendAllowableCall(name) ==
    /\ pc = "idle"
    /\ HasSection(contract, fn)
    /\ name \notin Section(contract, fn).allowable_calls
    /\ name \notin contract.global_allowed_calls
    /\ SetSection("allowable_calls", Section(contract, fn).allowable_calls \cup {name})
    /\ Edited("call")
    /\ UNCHANGED <<vvars, fn, pc, call, proc, q, eq, now, last>>

\* contract["raise_on_contract_exception"] = not ...
ToggleRaise ==
    /\ pc = "idle"
    /\ contract' = [contract EXCEPT
                      !.raise_on_contract_exception = ~contract.raise_on_contract_exception]
    /\ Edited("flag")
    /\ UNCHANGED <<vvars, fn, pc, call, proc, q, eq, now, last>>

\* contract["functions"].remove(f)
RemoveFunction ==
    /\ pc = "idle"
    /\ function_name(fn) \in contract.functions
    /\ contract' = [contract EXCEPT !.functions = contract.functions \ {function_name(fn)}]
    /\ Edited("functions")
    /\ UNCHANGED <<vvars, fn, pc, call, proc, q, eq, now, last>>

\* contract["functions"].append(f)
AppendFunction ==
    /\ pc = "idle"
    /\ function_name(fn) \notin contract.functions
    /\ contract' = [contract EXCEPT !.functions = contract.functions \cup {function_name(fn)}]
    /\ Edited("functions")
    /\ UNCHANGED <<vvars, fn, pc, call, proc, q, eq, now, last>>

\* params[new] = params.pop(old): the entry leaves its place and is
\* appended under the new key.
Renamed(params, i, new) ==
    [j \in 1..(Len(params) - 1) |-> IF j < i THEN params[j] ELSE params[j + 1]]
        \o <<Pred(new, params[i].pred)>>

RenameParam(i, new) ==
    /\ pc = "idle"
    /\ HasSection(contract, fn)
    /\ i \in 1..Len(Section(contract, fn).params)
    /\ Section(contract, fn).params[i].name \notin SigNames(fn)
    /\ new \in SigNames(fn) \ ParamNames(contract, fn)
    /\ SetSection("params", Renamed(Section(contract, fn).params, i, new))
    /\ Edited("param")
    /\ UNCHANGED <<vvars, fn, pc, call, proc, q, eq, now, last>>

Next ==
    \/ \E c \in Callers, a \in PosArgs, k \in KwArgs(fn) : wrapped(c, a, k)
    \/ timedfn
    \/ WorkerExit
    \/ Tick
    \/ join
    \/ is_alive
    \/ \E c \in Callers : AppendAllowedCaller(c)
    \/ \E n \in AllCallNames(fn.ast) : AppendAllowableCall(n)
    \/ ToggleRaise
    \/ RemoveFunction
    \/ AppendFunction
    \/ \E i \in 1..MaxPos + 1, n \in SigNames(fn) : RenameParam(i, n)

Spec == Init /\ [][Next]_vars

(***************************************************************************)
(* The static validator's operations.                                      *)
(***************************************************************************)
\* Instances created in one process.
MaxPasses == 2

\* lines 32-40
ASTVisitor(c, file_contents) ==
    /\ schema = NoSchema
    /\ passes < MaxPasses
    /\ visitor' = [contract |-> c, tree |-> file_contents, error_count |-> 0, state |-> "new"]
    /\ passes' = passes + 1
    /\ UNCHANGED <<lists, report, schema, rvars>>

\* The instance after check(), and the report it printed (none when the
\* visit raised).
Checked(v, st) ==
    [v EXCEPT !.error_count = st.error_count,
              !.state = IF st.raised = "None" THEN "checked" ELSE "raised"]

Report(st) ==
    IF st.raised = "None"
    THEN [printed |-> TRUE, lists |-> ListsOf(st), total |-> st.error_count]
    ELSE NoReport

\* lines 116-158
check ==
    /\ visitor.state = "new"
    /\ LET st == checked(lists, visitor.contract, visitor.tree)
       IN  /\ lists' = ListsOf(st)
           /\ visitor' = Checked(visitor, st)
           /\ report' = Report(st)
    /\ UNCHANGED <<schema, passes, rvars>>

\* main, lines 203-226, is all its process does: the class-level lists are
\* empty when it starts.  The contract is validated first; the process
\* exits when validation raises or when no file was given.
main(c, s, file) ==
    LET raised == verify_contract_schema(s)
        st == checked(EmptyLists, c, file)
    IN  /\ schema = NoSchema
        /\ passes = 0
        /\ schema' = [contract |-> c, shape |-> s, raised |-> raised]
        /\ IF raised # "None" \/ file = NoFile
           THEN /\ lists' = EmptyLists
                /\ visitor' = NoVisitor
                /\ report' = NoReport
                /\ passes' = 0
           ELSE /\ lists' = ListsOf(st)
                /\ visitor' = Checked([contract |-> c, tree |-> file,
                                       error_count |-> 0, state |-> "new"], st)
                /\ report' = Report(st)
                /\ passes' = 1
        /\ UNCHANGED rvars

InitValidator ==
    /\ lists = EmptyLists
    /\ visitor = NoVisitor
    /\ report = NoReport
    /\ schema = NoSchema
    /\ passes = 0
    /\ fn = plain
    /\ contract = Contract(plain, TRUE)
    /\ pc = "idle"
    /\ call = NoCall
    /\ proc = "none"
    /\ q = <<>>
    /\ eq = <<>>
    /\ now = 0
    /\ last = NoLast
    /\ since = "none"

NextValidator ==
    \/ \E c \in StaticContracts, file \in Files : ASTVisitor(c, file)
    \/ check
    \/ \E c \in StaticContracts, file \in Files \cup {NoFile} :
          \E s \in Shapes(c) : main(c, s, file)

SpecValidator == InitValidator /\ [][NextValidator]_vars


(***************************************************************************)
(* Properties.  They speak about the invocation that has just finished:    *)
(* in a state satisfying Finished, `last` holds its arguments and result   *)
(* and `contract` is the contract it ran under.                            *)
(***************************************************************************)
Finished == pc = "idle" /\ last # NoLast /\ since = "none"

\* The function is declared and has a section in the contract.
Declared == function_name(fn) \in contract.functions /\ HasSection(contract, fn)

Allowed(name) ==
    name \in Section(contract, fn).allowable_calls \/ name \in contract.global_allowed_calls

\* The declaration check and the call-graph check let the invocation pass.
CallGraphPasses ==
    /\ Declared
    /\ ~VisitRaises(fn.ast)
    /\ \A i \in 1..Len(Calls(fn.ast)) : Allowed(Calls(fn.ast)[i])

CallerPasses == last.function_caller \in Section(contract, fn).allowed_callers

Bound == BoundNames(fn, last.args, last.kwargs)

BindingPasses == BindOk(fn, last.args, last.kwargs)

\* The predicate the contract declares for parameter n fails on its value.
FailsPredicate(n) ==
    \E i \in 1..Len(Section(contract, fn).params) :
        /\ Section(contract, fn).params[i].name = n
        /\ ~PredHolds(Section(contract, fn).params[i].pred,
                      Argument(fn, last.args, last.kwargs, n))

\* The names that call expressions of the source target directly (f(...)),
\* wherever the expression stands.
NamesCalled(node) ==
    LET walked == VisitDeep(node)
    IN  {walked[i].id : i \in {j \in 1..Len(walked) : walked[j].func = "Name"}}

\* C1 (as claimed): for a declared function, a call expression anywhere in
\* the body -- inside another call's arguments or a nested scope included --
\* whose target name is in neither global_allowed_calls nor allowable_calls
\* makes every invocation end in CallNotAllowed with the body not run; with
\* every name allowed the invocation is not rejected by the call-graph check.
C1_CallGraphEnforced ==
    Finished /\ Declared =>
        /\ (\E n \in NamesCalled(fn.ast) : ~Allowed(n)) =>
               last.res.ce = "CallNotAllowed" /\ ~last.res.started
        /\ (\A n \in NamesCalled(fn.ast) : Allowed(n)) => last.res.ce # "CallNotAllowed"

\* C2: for a declared function whose call graph passes, an invocation from
\* a context that is not in allowed_callers ends in CallerNotAllowed and
\* the target is not run; from a context in allowed_callers (in particular
\* one appended since the rejected attempt) it is not rejected by the
\* caller check, and an otherwise valid in-process call returns ok with
\* the body's value.
C2_CallerEnforced ==
    Finished /\ CallGraphPasses =>
        /\ ~CallerPasses => last.res.ce = "CallerNotAllowed" /\ ~last.res.started
        /\ CallerPasses => last.res.ce # "CallerNotAllowed"
        /\ /\ CallerPasses
           /\ BindingPasses
           /\ Bound = ParamNames(contract, fn)
           /\ \A n \in Bound : ~FailsPredicate(n)
           => /\ last.res.started
              /\ /\ ~last.timed
                 /\ last.res.body.kind = "ret"
                 /\ PredHolds(Section(contract, fn).returns, last.res.body.val)
                 => Ok(last.res) /\ last.res.ret = last.res.body.val

\* A rejected caller was appended to allowed_callers and the same
\* invocation, retried from the same context, succeeded.
C2_Witness ==
    /\ Finished
    /\ last.before.ce = "CallerNotAllowed"
    /\ last.before.change = "caller"
    /\ last.function_caller = "test_caller"
    /\ Ok(last.res)
    /\ last.res.started

\* C3 (as claimed): a timed invocation whose body runs longer than
\* max_runtime_seconds always ends in TimeoutExceeded and never hands the
\* worker's value to the caller.
C3_OverBudgetTimesOut ==
    Finished /\ last.timed /\ last.dur > runtime =>
        last.res.ce = "TimeoutExceeded" /\ ~Ok(last.res)

\* C4 (as claimed): a timed invocation whose body returns in less than
\* max_runtime_seconds never ends in TimeoutExceeded, and the value checked
\* and delivered is the value the body returned, whatever that value is.
C4_InBudgetDelivers ==
    Finished /\ last.timed /\ last.dur < runtime /\ last.res.body.kind = "ret" =>
        /\ last.res.ce # "TimeoutExceeded"
        /\ Ok(last.res) => last.res.ret = last.res.body.val
        /\ PredHolds(Section(contract, fn).returns, last.res.body.val) => Ok(last.res)

\* C5 (as claimed): an exception raised by the body, in process or in the
\* worker, reaches the caller as that same exception whatever the switch
\* says; it is never turned into a Return object.  (Invocations that end in
\* TimeoutExceeded are left aside: their worker was killed.)
C5_BodyExceptionPropagates ==
    /\ Finished
    /\ last.res.body.kind \in {"exc", "cexc", "bexc"}
    /\ last.res.ce # "TimeoutExceeded"
    => last.res.how = "raise" /\ last.res.ce = BodyException(last.res.body)

\* The violations raised before the target is run; which one an invocation
\* meets is a function of the contract and the arguments.
PreViolations ==
    {"FunctionNotDeclared", "CallNotAllowed", "CallerNotAllowed", "UnboundParameters",
     "ParamNotDeclared", "ParamInvalid"}

\* C6: a violation the engine detects is raised when
\* raise_on_contract_exception is true and returned in a Return object with
\* ok false, carrying that violation and no value, when it is false; and
\* when the same invocation is repeated after only the switch was toggled,
\* the same violation is detected and only its delivery changes.
C6_ModeSwitch ==
    Finished =>
        /\ last.res.ce \in Violations =>
              IF contract.raise_on_contract_exception
              THEN last.res.how = "raise"
              ELSE last.res.how = "return" /\ ~Ok(last.res) /\ last.res.ret = NONE
        /\ last.before.change = "flag"
           /\ (last.before.ce \in PreViolations \/ last.res.ce \in PreViolations)
           => last.res.ce = last.before.ce /\ last.res.how # last.before.how

\* The same violating invocation ran with the switch true (raised) and,
\* after the toggle, with the switch false (returned, not ok).
C6_Witness ==
    /\ Finished
    /\ last.before.change = "flag"
    /\ last.before.how = "raise"
    /\ last.before.ce = "CallerNotAllowed"
    /\ last.res.how = "return"
    /\ last.res.ce = "CallerNotAllowed"
    /\ ~contract.raise_on_contract_exception

\* C7 (as claimed): the declaration check comes first: whenever the
\* function's name is not in contract["functions"] the invocation ends in
\* FunctionNotDeclared, whatever else is wrong with it.
C7_DeclarationFirst ==
    Finished /\ function_name(fn) \notin contract.functions =>
        last.res.ce = "FunctionNotDeclared"

\* C8 (as claimed): for an invocation that passes the declaration,
\* call-graph, caller and binding checks: if a bound argument's value fails
\* its predicate the invocation ends in ParamInvalid and the target is not
\* run; if every bound argument is declared and satisfies its predicate the
\* target is run.
C8_ParamValues ==
    Finished /\ CallGraphPasses /\ CallerPasses /\ BindingPasses =>
        /\ (\E n \in Bound : FailsPredicate(n)) =>
               last.res.ce = "ParamInvalid" /\ ~last.res.started
        /\ Bound \subseteq ParamNames(contract, fn) /\ (\A n \in Bound : ~FailsPredicate(n))
           => last.res.started

\* C9: for an invocation that passes the declaration, call-graph and caller
\* checks: arguments that cannot be bound end in UnboundParameters, a bound
\* name that is no key of params ends in ParamNotDeclared, in both cases
\* without running the target; and once every bound name is a key of params
\* (after the key was renamed) the invocation no longer ends in
\* ParamNotDeclared.
C9_BindingAndDeclaration ==
    Finished /\ CallGraphPasses /\ CallerPasses =>
        /\ ~BindingPasses => last.res.ce = "UnboundParameters" /\ ~last.res.started
        /\ BindingPasses /\ ~(Bound \subseteq ParamNames(contract, fn))
           => last.res.ce = "ParamNotDeclared" /\ ~last.res.started
        /\ BindingPasses /\ Bound \subseteq ParamNames(contract, fn)
           => last.res.ce \notin {"UnboundParameters", "ParamNotDeclared"}

\* An invocation rejected with ParamNotDeclared was repeated after the
\* params key was renamed and got past the declaration check.
C9_Witness ==
    /\ Finished
    /\ last.before.ce = "ParamNotDeclared"
    /\ last.before.change = "param"
    /\ last.res.ce \notin {"UnboundParameters", "ParamNotDeclared", "KeyError"}

\* C10 (as claimed): on both paths a Return object with ok true is produced
\* only when the target produced a value, that value satisfies the returns
\* predicate and it is the value handed over; a value that fails the
\* predicate and reaches the return check ends in ReturnInvalid.
C10_ReturnChecked ==
    Finished =>
        /\ Ok(last.res) =>
              /\ last.res.body.kind = "ret"
              /\ last.res.ret = last.res.body.val
              /\ PredHolds(Section(contract, fn).returns, last.res.body.val)
        /\ /\ last.res.body.kind = "ret"
           /\ ~PredHolds(Section(contract, fn).returns, last.res.body.val)
           /\ last.res.ce # "TimeoutExceeded"
           => last.res.ce = "ReturnInvalid"

(***************************************************************************)
(* Properties of schema validation and of the static validator.            *)
(***************************************************************************)
\* C11: schema validation precedes use.  Every guarded invocation that has
\* finished ran under a contract that passes verify_contract_schema; in
\* particular no invocation runs under a contract whose functions list
\* holds a name without a section.
C11_SchemaBeforeUse ==
    Finished => verify_contract_schema(Shape(contract)) = "None"

\* The elements of a sequence.
Range(seq) == {seq[i] : i \in 1..Len(seq)}

\* The function definitions anywhere in a file: at top level, inside
\* another function, inside a class.
Definitions(tree) ==
    LET all == walk(<<tree>>)
    IN  {all[i] : i \in {j \in 1..Len(all) : all[j].kind = "FunctionDef"}}

DefinedNames(tree) == {d.id : d \in Definitions(tree)}

\* A report has been printed by the first pass of a process, run on a
\* contract that passes schema validation: it shows what this pass found
\* and nothing else.
FirstPass ==
    /\ report.printed
    /\ passes = 1
    /\ verify_contract_schema(Shape(visitor.contract)) = "None"

\* C12: after a pass, every name of the contract's functions list that the
\* analysed file does not define has an UndefinedFunction record in the
\* report.
C12_UndefinedReported ==
    FirstPass =>
        \A n \in visitor.contract.functions \ DefinedNames(visitor.tree) :
            n \in Range(report.lists.undefined_func)

\* C13: after a pass, every function definition of the analysed file (top
\* level, nested in a function, method of a class) whose name is not in the
\* functions list has an UndeclaredFunction record with its line and name.
C13_UndeclaredReported ==
    FirstPass =>
        \A d \in Definitions(visitor.tree) :
            d.id \notin visitor.contract.functions
                => <<Line(d), d.id>> \in Range(report.lists.undeclared_func)

\* The call expressions in the full nested body of definition d whose
\* target name is in neither list of allowed calls.
Offending(c, d) ==
    LET IsOffending(cn) ==
            /\ cn.kind = "Call"
            /\ cn.id \notin c.global_allowed_calls
            /\ cn.id \notin c.specs[d.id].allowable_calls
    IN  SelectSeq(walk(<<d>>), IsOffending)

\* C14: after a pass, for every declared function the file defines, the
\* CallViolation records naming it as the containing function are, one for
\* one, the offending call expressions of its full nested body: each has
\* its record, and there are as many records as offending calls.
C14_CallViolations ==
    FirstPass =>
        \A d \in Definitions(visitor.tree) :
            d.id \in visitor.contract.functions /\ d.id \in DOMAIN visitor.contract.specs =>
                LET off == Offending(visitor.contract, d)
                    In(r) == r[3] = d.id
                IN  /\ \A i \in 1..Len(off) :
                          <<Line(off[i]), off[i].id, d.id>> \in Range(report.lists.call_violation)
                    /\ Len(SelectSeq(report.lists.call_violation, In)) = Len(off)

\* The imports of a file, top level or inside any function or class, as
\* the (line, name) pairs an ImportViolation would carry.
Imports(tree) ==
    LET all == walk(<<tree>>)
        Names(n) == IF n.kind = "Import" THEN n.names
                    ELSE IF n.kind = "ImportFrom" THEN <<n.id>> ELSE <<>>
    IN  Concat([i \in 1..Len(all) |->
                  [k \in 1..Len(Names(all[i])) |-> <<Line(all[i]), Names(all[i])[k]>>]])

\* C15: after a pass, the ImportViolation records are, one for one, the
\* imports of names outside allowable_imports found anywhere in the file,
\* inside declared and undeclared functions alike.
C15_ImportViolations ==
    FirstPass =>
        LET Bad(r) == r[2] \notin visitor.contract.allowable_imports
            bad == SelectSeq(Imports(visitor.tree), Bad)
        IN  /\ Range(bad) = Range(report.lists.import_violation)
            /\ Len(bad) = Len(report.lists.import_violation)

\* The call names the static validator checks for the definition `node`.
StaticCallNames(node) ==
    LET all == walk(<<node>>)
    IN  {all[i].id : i \in {j \in 1..Len(all) : all[j].kind = "Call"}}

Defective(s) ==
    \/ \E k \in DOMAIN schema_globals : s.globals[k] # schema_globals[k]
    \/ \E n \in s.functions :
          \/ n \notin DOMAIN s.sections
          \/ s.sections[n].kind # "dict"
          \/ \E k \in DOMAIN schema_functions : s.sections[n].keys[k] # schema_functions[k]

\* C17: verify_contract_schema raises ContractValidationException exactly
\* when the contract has one of these defects and completes without error
\* otherwise, whatever raise_on_contract_exception is set to.
C17_SchemaResult ==
    schema.raised # "" =>
        /\ Defective(schema.shape) => schema.raised = "ContractValidationException"
        /\ ~Defective(schema.shape) => schema.raised = "None"

(***************************************************************************)
(* Further properties of the runtime engine.                               *)
(***************************************************************************)
\* C18: outcome exclusivity.  A Return handed to the caller either has
\* ok = false, a violation and no value, or has ok = true, no violation
\* and, as its value, the value the target's body returned.
C18_OutcomeExclusive ==
    Finished /\ last.res.how = "return" =>
        /\ ~Ok(last.res) => last.res.ce \in ContractExceptions /\ last.res.ret = NONE
        /\ Ok(last.res) =>
              /\ last.res.ce = "None"
              /\ last.res.body.kind = "ret"
              /\ last.res.ret = last.res.body.val

\* A worker process exists and has not been terminated.
Outstanding == proc \in {"running", "exiting", "exited"}

\* C19: worker lifecycle.  A worker is started only by an invocation that
\* enters the timed path, one per invocation, and every such invocation
\* starts one.  When TimeoutExceeded has been reported the worker has been
\* terminated, the report carries no value, what the worker may have put on
\* the queues is dropped, and the terminated worker does nothing any more:
\* only the next timed invocation replaces it with a new worker.
C19_WorkerLifecycle ==
    /\ [](pc # "idle" => Outstanding)
    /\ [](last.res.ce = "TimeoutExceeded" /\ pc = "idle"
             => proc = "terminated" /\ last.res.ret = NONE /\ q = <<>> /\ eq = <<>>)
    /\ [][/\ proc' = "running" /\ proc # "running" => pc = "idle" /\ pc' = "join"
          /\ pc = "idle" /\ pc' # "idle" => proc' = "running"
          /\ proc = "terminated" /\ proc' # "terminated" => pc = "idle" /\ pc' = "join"
          /\ proc = "terminated" /\ pc' = "idle" => q' = <<>> /\ eq' = <<>>]_vars

\* TimeoutExceeded has been reported for a worker whose body had already
\* returned a value when it was terminated.
C19_Witness ==
    /\ Finished
    /\ last.res.ce = "TimeoutExceeded"
    /\ last.res.body.kind = "ret"
    /\ proc = "terminated"

(***************************************************************************)
(* Reports of successive passes.                                           *)
(***************************************************************************)
\* C20: whatever passes came before it in the process, the total a pass
\* reports is the sum of the lengths of the five sequences it reports, and
\* these sequences hold the records found in this pass and no others.
C20_ReportConsistent ==
    report.printed /\ visitor.state = "checked" =>
        /\ report.total =
              Len(report.lists.call_violation) + Len(report.lists.import_violation)
                + Len(report.lists.undeclared_func) + Len(report.lists.undefined_func)
                + Len(report.lists.undecorated_class)
        /\ report.lists = ListsOf(checked(EmptyLists, visitor.contract, visitor.tree))

(***************************************************************************)
(* Guarded execution and the set of outcomes.                              *)
(***************************************************************************)
\* Every check that precedes execution lets the finished invocation pass.
AllChecksPass ==
    /\ CallGraphPasses
    /\ CallerPasses
    /\ BindingPasses
    /\ Bound = ParamNames(contract, fn)
    /\ \A n \in Bound : ~FailsPredicate(n)

\* C21: guarded execution.  The target's body is started only after the
\* declaration, call-graph, caller, binding, parameter-declaration and
\* parameter-value checks have all passed, and an invocation that ends in
\* one of those violations has not started it.  A started body ran in the
\* calling process when max_runtime_seconds <= 0 and in a worker when it is
\* > 0; while an invocation is in flight there is exactly one worker, and
\* no worker is left running its body when no invocation is in flight.
C21_GuardedExecution ==
    /\ pc # "idle" => Outstanding
    /\ pc = "idle" => proc \notin {"running", "exiting"}
    /\ Finished =>
          /\ last.res.ce \in PreViolations => ~last.res.started
          /\ last.res.started =>
                /\ AllChecksPass
                /\ last.timed <=> runtime > 0

\* The target ran in a worker, after all checks had passed, and its value
\* was returned.
C21_Witness ==
    /\ Finished
    /\ last.timed
    /\ last.res.started
    /\ Ok(last.res)
    /\ last.res.body.kind = "ret"

\* C22: closed outcome set.  Under a contract that passes schema
\* validation every invocation (of a function whose source the call
\* extractor can visit) ends in a Return object, in a raised
\* contract violation, or in the exception the target's body raised; the
\* engine's checks raise nothing else (no lookup error in particular), and
\* with raise_on_contract_exception false every violation they detect is
\* returned in a Return object with ok false.
C22_ClosedOutcomes ==
    Finished /\ verify_contract_schema(Shape(contract)) = "None" /\ ~VisitRaises(fn.ast) =>
        /\ \/ last.res.how = "return"
           \/ last.res.how = "raise" /\ last.res.ce \in Violations
           \/ /\ last.res.how = "raise"
              /\ last.res.body.kind \in {"exc", "cexc", "bexc"}
              /\ last.res.ce = BodyException(last.res.body)
        /\ ~contract.raise_on_contract_exception /\ last.res.ce \in Violations
              => last.res.how = "return" /\ ~Ok(last.res)

====
